---- MODULE Spec2Model ----
(***************************************************************************)
(* Entity connection graph of busfactor_ai.                                *)
(*                                                                         *)
(*   backend/scripts/build_connections.py   the Connection Builder (main)  *)
(*   backend/scripts/query_connections.py   get_connections                *)
(*   backend/scripts/mcp_api.py             build_connection_graph         *)
(*                                                                         *)
(* Confidence scores and vector distances are integers in thousandths      *)
(* (0.95 is 950, a distance of 0.4 is 400).  A document is the set of the  *)
(* reference-bearing fragments its text contains; "text" stands for text   *)
(* without any reference, the empty set for the empty string.              *)
(***************************************************************************)
EXTENDS Integers, Sequences, FiniteSets, TLC

VARIABLES
    chroma,               \* index into Corpora: the content of the ChromaDB collection
    db,                   \* the SQLite database: entity_metadata, entity_connections, sqlite_sequence
    runs,                 \* number of runs of main so far
    run_status,           \* how the last run of main ended: "none", "ok", "crashed"
                          \* (store_connections raised), "index_error" (the vector index raised)
    regex_connections,    \* main: result of find_regex_matches in the last run
    vector_connections,   \* main: result of find_vector_matches in the last run
    meeting_connections,  \* main: result of find_meeting_connections in the last run
    existing_pairs,       \* main: existing_pairs at the end of the last run
    last_built,           \* history: corpus of the last committed run (0 = none)
    rebuild,              \* history: the last run was over the corpus of the committed run before it
    g_entry,              \* the API function called: "none", "build_connection_graph",
                          \* "search_with_connections"
    summaries,            \* search_with_connections: result of search_weekly_summaries
    root_summary_ids,     \* search_with_connections: root_summary_ids
    lookups,              \* history: the Connection Store lookups of the call, in order
    g_pc,                 \* build_connection_graph: "idle", "while", "for", "done"
    sub_entity_ids,       \* build_connection_graph: argument
    max_depth,            \* build_connection_graph: argument
    nodes,                \* build_connection_graph: keys of the nodes dict, in insertion order
    edges,                \* build_connection_graph: edges list
    seen_edges,           \* build_connection_graph: seen_edges set
    entities_to_process,  \* build_connection_graph: current frontier
    processed,            \* build_connection_graph: processed set
    current_depth,        \* build_connection_graph: current_depth
    next_level,           \* build_connection_graph: next_level list
    idx,                  \* build_connection_graph: position of the for loop in entities_to_process
    q_pc,                 \* get_connection_graph: "idle", "done"
    q_entity_id,          \* get_connection_graph: argument entity_id
    q_depth,              \* get_connection_graph: argument depth
    visited,              \* get_connection_graph: visited set
    graph,                \* get_connection_graph: graph, the IDs of its nodes and its edges
    w_pc,                 \* store phase of main: "idle", "metadata", "forward", "reverse",
                          \* "done", "raised"
    w_corpus,             \* main: the corpus load_all_entities returned to the run
    w_order,              \* main: the iteration order of the reference sets in the run
    w_db,                 \* the database as the builder's connection sees it, uncommitted rows included
    w_todo,               \* store_connections: connections still to be written
    before,               \* history: the committed database when the run began
    r_view,               \* reader: the database its last query was answered from
    r_run,                \* history: the value of runs at the reader's last query
    r_at                  \* history: the value of w_pc at the reader's last query

buildVars == <<chroma, db, runs, run_status, regex_connections, vector_connections,
               meeting_connections, existing_pairs, last_built, rebuild>>
graphVars == <<g_entry, summaries, root_summary_ids, lookups,
               g_pc, sub_entity_ids, max_depth, nodes, edges, seen_edges,
               entities_to_process, processed, current_depth, next_level, idx>>
queryVars == <<q_pc, q_entity_id, q_depth, visited, graph>>
storeVars == <<w_pc, w_corpus, w_order, w_db, w_todo, before,
               r_view, r_run, r_at>>
vars == <<buildVars, graphVars, queryVars, storeVars>>

----------------------------------------------------------------------------
(* Bounds *)

MaxRuns == 2
MaxDepth == 2
MaxSeeds == 2
MaxSummaries == 2

----------------------------------------------------------------------------
(* Program constants *)

VECTOR_SIMILARITY_THRESHOLD == 1200
MIN_CONFIDENCE_SCORE == 500
INCIDENT_CONFIDENCE == 950
JIRA_CONFIDENCE == 900
PR_CONFIDENCE == 850
MEETING_CONFIDENCE == 900
N_RESULTS == 10

----------------------------------------------------------------------------
(* Entity identifiers, text fragments and references *)

IDs == {"github_pr_101", "jira_ENG-1", "jira_ENG-2", "meeting_M1", "slack_T1"}

\* Python's order on the identifier strings, as used by sorted().
Rank ==
    [id \in IDs |->
        CASE id = "github_pr_101" -> 1
          [] id = "jira_ENG-1"    -> 2
          [] id = "jira_ENG-2"    -> 3
          [] id = "meeting_M1"    -> 4
          [] id = "slack_T1"      -> 5]

\* tuple(sorted([a, b]))
SortedPairUnsorted(a, b) == <<a, b>>
SortedPair(a, b) == IF Rank[a] <= Rank[b] THEN <<a, b>> ELSE <<b, a>>

\* entity_id.startswith("jira_") and entity_id.startswith("meeting_")
IsJira(id) == id \in {"jira_ENG-1", "jira_ENG-2"}
IsMeeting(id) == id \in {"meeting_M1"}

\* f"github_pr_{pr_ref}"
GithubPrId(pr_ref) == IF pr_ref = "101" THEN "github_pr_101" ELSE "github_pr_?"

Fragments == {"text", "INC001", "inc-002", "ENG-1", "ENG-2", "PR#101", "PR #101", "pull/101"}

\* INC[-]?(\d{3,4}), case-insensitive, normalised to INC + digits
IncidentRefOf(frag) ==
    CASE frag = "INC001"  -> {"INC001"}
      [] frag = "inc-002" -> {"INC002"}
      [] OTHER            -> {}

\* ([A-Z]{2,5})-(\d{1,5}), case-sensitive
JiraRefOf(frag) ==
    CASE frag = "ENG-1" -> {"ENG-1"}
      [] frag = "ENG-2" -> {"ENG-2"}
      [] OTHER          -> {}

\* (?:PR[#\s-]?|pull[/\s]?)(\d{2,4}), case-insensitive: at most one of
\* '#', white space or '-' after PR, so "PR #101" is not a reference.
PrRefOf(frag) ==
    CASE frag = "PR#101"   -> {"101"}
      [] frag = "pull/101" -> {"101"}
      [] OTHER             -> {}

\* An entity of the collection; null_document is a document of None.
Entity(id, source, incident_ref, document) ==
    [id |-> id, source |-> source, incident_ref |-> incident_ref,
     null_document |-> FALSE, document |-> document]

NullDocEntity(id, source, incident_ref) ==
    [id |-> id, source |-> source, incident_ref |-> incident_ref,
     null_document |-> TRUE, document |-> {}]

\* "not text": None or the empty string
Falsy(e) == e.null_document \/ e.document = {}

extract_references(e) ==
    IF Falsy(e)
    THEN [incident_refs |-> {}, jira_refs |-> {}, pr_refs |-> {}]
    ELSE [incident_refs |-> UNION {IncidentRefOf(f) : f \in e.document},
          jira_refs     |-> UNION {JiraRefOf(f) : f \in e.document},
          pr_refs       |-> UNION {PrRefOf(f) : f \in e.document}]

\* The iteration orders of the reference sets that a run of the interpreter
\* can have: string hashing is randomised per process, so a set of two
\* strings is iterated in either order.
HashOrders ==
    { <<"INC001", "INC002", "ENG-1", "ENG-2", "101">>,
      <<"INC002", "INC001", "ENG-1", "ENG-2", "101">>,
      <<"INC001", "INC002", "ENG-2", "ENG-1", "101">>,
      <<"INC002", "INC001", "ENG-2", "ENG-1", "101">> }

\* for ref in refs[...]: the elements of S in the iteration order
IterSet(S, order) == SelectSeq(order, LAMBDA r : r \in S)

RECURSIVE Flatten(_)
Flatten(ss) == IF ss = <<>> THEN <<>> ELSE Head(ss) \o Flatten(Tail(ss))

Range(s) == {s[i] : i \in 1..Len(s)}

----------------------------------------------------------------------------
(* The ChromaDB collection "context_entities": the corpora the builder is run on *)

Near(a, b, d) == [pair |-> {a, b}, distance |-> d]

Corpora ==
    << \* 1: the empty collection
       [entities |-> <<>>, near |-> {}],
       \* 2: a ticket whose text has no reference and a thread that mentions it
       [entities |-> << Entity("jira_ENG-1", "jira", "", {"text"}),
                        Entity("slack_T1", "slack", "", {"ENG-1"}) >>,
        near |-> {Near("jira_ENG-1", "slack_T1", 1300)}],
       \* 3: the same, the thread close to the ticket in the vector index
       [entities |-> << Entity("jira_ENG-1", "jira", "", {"text"}),
                        Entity("slack_T1", "slack", "", {"ENG-1"}) >>,
        near |-> {Near("jira_ENG-1", "slack_T1", 400)}],
       \* 4: a ticket whose text repeats its own key
       [entities |-> << Entity("jira_ENG-1", "jira", "", {"ENG-1"}),
                        Entity("slack_T1", "slack", "", {"ENG-1"}) >>,
        near |-> {Near("jira_ENG-1", "slack_T1", 400)}],
       \* 5: incident_ref metadata repeated in the text
       [entities |-> << Entity("slack_T1", "slack", "INC001", {"INC001"}),
                        Entity("meeting_M1", "meetings", "INC001", {"text"}),
                        Entity("jira_ENG-1", "jira", "INC001", {"text"}) >>,
        near |-> {Near("jira_ENG-1", "meeting_M1", 1000)}],
       \* 6: co-mentions of a ticket that is not in the collection, and of a pull request
       [entities |-> << Entity("slack_T1", "slack", "", {"ENG-2", "PR#101"}),
                        Entity("meeting_M1", "meetings", "", {"ENG-2"}),
                        Entity("jira_ENG-1", "jira", "", {"pull/101"}),
                        Entity("github_pr_101", "github", "", {"text"}) >>,
        near |-> {Near("jira_ENG-1", "slack_T1", 400),
                  Near("jira_ENG-1", "meeting_M1", 1100),
                  Near("jira_ENG-1", "github_pr_101", 300)}],
       \* 7: two entities that share two incidents
       [entities |-> << Entity("jira_ENG-1", "jira", "", {"INC001", "inc-002"}),
                        Entity("slack_T1", "slack", "", {"INC001", "inc-002"}) >>,
        near |-> {}],
       \* 8: a path jira_ENG-1 - slack_T1 - meeting_M1 - jira_ENG-2
       [entities |-> << Entity("jira_ENG-1", "jira", "", {"ENG-1"}),
                        Entity("slack_T1", "slack", "", {"ENG-1", "INC001"}),
                        Entity("meeting_M1", "meetings", "", {"INC001", "ENG-2"}),
                        Entity("jira_ENG-2", "jira", "", {"ENG-2"}) >>,
        near |-> {Near("jira_ENG-1", "jira_ENG-2", 300)}],
       \* 9: a triangle with a pendant pull request
       [entities |-> << Entity("jira_ENG-1", "jira", "", {"ENG-1"}),
                        Entity("slack_T1", "slack", "", {"ENG-1"}),
                        Entity("meeting_M1", "meetings", "", {"ENG-1", "inc-002"}),
                        Entity("github_pr_101", "github", "INC002", {"text"}) >>,
        near |-> {}],
       \* 10: several reference kinds on one pair
       [entities |-> << Entity("jira_ENG-1", "jira", "", {"ENG-1", "INC001", "PR#101"}),
                        Entity("slack_T1", "slack", "", {"ENG-1", "INC001"}),
                        Entity("github_pr_101", "github", "", {"ENG-1"}) >>,
        near |-> {Near("jira_ENG-1", "slack_T1", 400)}],
       \* 11: similarity only, at several distances
       [entities |-> << Entity("jira_ENG-1", "jira", "", {"text"}),
                        Entity("slack_T1", "slack", "", {"text"}),
                        Entity("meeting_M1", "meetings", "", {"text"}),
                        Entity("github_pr_101", "github", "", {"text"}),
                        Entity("jira_ENG-2", "jira", "", {}) >>,
        near |-> {Near("jira_ENG-1", "slack_T1", 1100),
                  Near("jira_ENG-1", "meeting_M1", 1000),
                  Near("jira_ENG-1", "github_pr_101", 1300),
                  Near("jira_ENG-1", "jira_ENG-2", 400),
                  Near("jira_ENG-2", "slack_T1", 300)}],
       \* 12: an entity stored without a document
       [entities |-> << Entity("jira_ENG-1", "jira", "INC001", {"ENG-1"}),
                        NullDocEntity("slack_T1", "slack", "INC001") >>,
        near |-> {}],
       \* 13: two tickets next to one thread and one meeting, the meeting a
       \* copy of the text of the first ticket as far as the embedding goes
       [entities |-> << Entity("slack_T1", "slack", "", {"INC001", "ENG-2"}),
                        Entity("jira_ENG-1", "jira", "", {"INC001"}),
                        Entity("jira_ENG-2", "jira", "", {"ENG-2"}),
                        Entity("meeting_M1", "meetings", "", {"text"}) >>,
        near |-> {Near("jira_ENG-1", "meeting_M1", 0),
                  Near("jira_ENG-2", "meeting_M1", 1000),
                  Near("jira_ENG-1", "jira_ENG-2", 300),
                  Near("jira_ENG-1", "slack_T1", 400)}] >>

CorpusIds(c) == {Corpora[c].entities[i].id : i \in 1..Len(Corpora[c].entities)}

\* L2 distance between the embeddings of two entities of the collection;
\* entities the corpus does not list as near are 1.5 apart.
Distance(c, a, b) ==
    IF a = b THEN 0
    ELSE IF \E n \in Corpora[c].near : n.pair = {a, b}
         THEN (CHOOSE n \in Corpora[c].near : n.pair = {a, b}).distance
         ELSE 1500

\* f"{distance:.3f}"
DistanceText(d) ==
    CASE d = 0    -> "0.000"
      [] d = 300  -> "0.300"
      [] d = 400  -> "0.400"
      [] d = 1000 -> "1.000"
      [] d = 1100 -> "1.100"
      [] d = 1300 -> "1.300"
      [] d = 1500 -> "1.500"

----------------------------------------------------------------------------
(* find_regex_matches *)

Conn(s, t, kind, detail, conf) ==
    [source |-> s, target |-> t, match_reason |-> <<kind, detail>>, confidence |-> conf]

\* The appends of one entity to incident_lookup: the metadata field first,
\* then the references found in the document.
EntityIncidentEntriesTextOnly(e, order) ==
    LET refs == IterSet(extract_references(e).incident_refs, order)
    IN  [i \in 1..Len(refs) |-> <<refs[i], e.id>>]
EntityIncidentEntries(e, order) ==
    LET refs == IterSet(extract_references(e).incident_refs, order)
    IN  (IF e.incident_ref # "" THEN << <<e.incident_ref, e.id>> >> ELSE <<>>)
        \o [i \in 1..Len(refs) |-> <<refs[i], e.id>>]

EntityJiraEntries(e, order) ==
    LET refs == IterSet(extract_references(e).jira_refs, order)
    IN  [i \in 1..Len(refs) |-> <<refs[i], e.id>>]

EntityPrEntries(e, order) ==
    LET refs == IterSet(extract_references(e).pr_refs, order)
    IN  [i \in 1..Len(refs) |-> <<refs[i], e.id>>]

RECURSIVE FirstOccurrences(_, _)
FirstOccurrences(s, seen) ==
    IF s = <<>> THEN <<>>
    ELSE IF Head(s) \in seen THEN FirstOccurrences(Tail(s), seen)
         ELSE <<Head(s)>> \o FirstOccurrences(Tail(s), seen \cup {Head(s)})

\* A defaultdict(list) filled by the appends in `entries`: its keys in
\* insertion order and the list of each key.
Lookup(entries) ==
    LET keyseq == FirstOccurrences([i \in 1..Len(entries) |-> entries[i][1]], {})
    IN  [keys |-> keyseq,
         ids  |-> [k \in Range(keyseq) |->
                     LET hits == SelectSeq(entries, LAMBDA en : en[1] = k)
                     IN  [i \in 1..Len(hits) |-> hits[i][2]]]]

incident_lookup(entities, order) ==
    Lookup(Flatten([i \in 1..Len(entities) |-> EntityIncidentEntries(entities[i], order)]))

jira_lookup(entities, order) ==
    Lookup(Flatten([i \in 1..Len(entities) |-> EntityJiraEntries(entities[i], order)]))

pr_lookup(entities, order) ==
    Lookup(Flatten([i \in 1..Len(entities) |-> EntityPrEntries(entities[i], order)]))

\* for i, eid1 in enumerate(entity_ids): for eid2 in entity_ids[i+1:]
PairsOf(l) ==
    Flatten([i \in 1..Len(l) |-> [j \in 1..(Len(l) - i) |-> <<l[i], l[i + j]>>]])

\* The pairs the incident loop and the Jira loop visit, in order.
SharedCandidates(lookup, kind, conf) ==
    Flatten([n \in 1..Len(lookup.keys) |->
        LET k == lookup.keys[n]
            l == lookup.ids[k]
            ps == PairsOf(l)
        IN  IF Len(l) > 1
            THEN [m \in 1..Len(ps) |-> Conn(ps[m][1], ps[m][2], kind, k, conf)]
            ELSE <<>>])

\* The pairs the PR loop visits: every mentioner with the github_pr entity.
PrCandidatesClique(lookup, ids) ==
    SharedCandidates(lookup, "pr_reference", PR_CONFIDENCE)
PrCandidates(lookup, ids) ==
    Flatten([n \in 1..Len(lookup.keys) |->
        LET k == lookup.keys[n]
            l == lookup.ids[k]
            mentioners == SelectSeq(l, LAMBDA eid : eid # GithubPrId(k))
        IN  IF GithubPrId(k) \in ids
            THEN [m \in 1..Len(mentioners) |->
                    Conn(mentioners[m], GithubPrId(k), "pr_reference", k, PR_CONFIDENCE)]
            ELSE <<>>])

\* if pair not in seen_pairs: seen_pairs.add(pair); connections.append(...)
RECURSIVE AppendUnseen(_, _, _)
AppendUnseen(cands, seen_pairs, connections) ==
    IF cands = <<>> THEN connections
    ELSE LET c == Head(cands)
             pair == SortedPair(c.source, c.target)
         IN  IF pair \in seen_pairs
             THEN AppendUnseen(Tail(cands), seen_pairs, connections)
             ELSE AppendUnseen(Tail(cands), seen_pairs \cup {pair}, Append(connections, c))

find_regex_matches_pr_first(entities, order) ==
    LET ids == {entities[i].id : i \in 1..Len(entities)}
    IN  AppendUnseen(
            PrCandidates(pr_lookup(entities, order), ids)
            \o SharedCandidates(jira_lookup(entities, order), "shared_jira", JIRA_CONFIDENCE)
            \o SharedCandidates(incident_lookup(entities, order), "shared_incident", INCIDENT_CONFIDENCE),
            {}, <<>>)
find_regex_matches(entities, order) ==
    LET ids == {entities[i].id : i \in 1..Len(entities)}
    IN  AppendUnseen(
            SharedCandidates(incident_lookup(entities, order), "shared_incident", INCIDENT_CONFIDENCE)
            \o SharedCandidates(jira_lookup(entities, order), "shared_jira", JIRA_CONFIDENCE)
            \o PrCandidates(pr_lookup(entities, order), ids),
            {}, <<>>)

----------------------------------------------------------------------------
(* find_vector_matches *)

\* Insert x into a sequence sorted by distance, after the entries that are as near.
RECURSIVE InsertByDistance(_, _)
InsertByDistance(x, s) ==
    IF s = <<>> THEN <<x>>
    ELSE IF x[2] < Head(s)[2] THEN <<x>> \o s
         ELSE <<Head(s)>> \o InsertByDistance(x, Tail(s))

RECURSIVE SortByDistance(_)
SortByDistance(s) ==
    IF s = <<>> THEN <<>>
    ELSE InsertByDistance(s[Len(s)], SortByDistance(SubSeq(s, 1, Len(s) - 1)))

\* collection.query(query_embeddings=[embedding of jira_id], n_results=10):
\* the nearest entities of the collection, nearest first, as <<id, distance>>.
QueryResults(c, jira_id) ==
    LET entities == Corpora[c].entities
        all == SortByDistance([i \in 1..Len(entities) |->
                                  <<entities[i].id, Distance(c, jira_id, entities[i].id)>>])
    IN  SubSeq(all, 1, IF Len(all) < N_RESULTS THEN Len(all) ELSE N_RESULTS)

\* max(0, 1 - (distance / 2))
ConfidencePlus(distance) == 1000 + (distance \div 2)
ConfidenceNotHalved(distance) ==
    IF 1000 - distance > 0 THEN 1000 - distance ELSE 0
Confidence(distance) ==
    IF 1000 - (distance \div 2) > 0 THEN 1000 - (distance \div 2) ELSE 0

\* if pair in existing_pairs: continue
AlreadyConnectedNever(pair, pairs) == FALSE
AlreadyConnected(pair, pairs) == pair \in pairs

\* The <<jira_id, match_id, distance>> triples the two nested loops visit.
VectorCandidates(c) ==
    LET entities == Corpora[c].entities
        jira_entities == SelectSeq(entities, LAMBDA e : IsJira(e.id))
    IN  Flatten([i \in 1..Len(jira_entities) |->
            LET res == QueryResults(c, jira_entities[i].id)
            IN  IF Falsy(jira_entities[i]) THEN <<>>
                ELSE [m \in 1..Len(res) |-> <<jira_entities[i].id, res[m][1], res[m][2]>>]])

RECURSIVE VectorLoop(_, _, _)
VectorLoop(cands, pairs, connections) ==
    IF cands = <<>> THEN [connections |-> connections, existing_pairs |-> pairs]
    ELSE LET jira_id == Head(cands)[1]
             match_id == Head(cands)[2]
             distance == Head(cands)[3]
             pair == SortedPair(jira_id, match_id)
         IN  IF \/ match_id = jira_id
                \/ IsJira(match_id)
                \/ AlreadyConnected(pair, pairs)
                \/ ~(distance < VECTOR_SIMILARITY_THRESHOLD)
                \/ ~(Confidence(distance) >= MIN_CONFIDENCE_SCORE)
             THEN VectorLoop(Tail(cands), pairs, connections)
             ELSE VectorLoop(Tail(cands), pairs \cup {pair},
                             Append(connections,
                                    Conn(jira_id, match_id, "vector_similarity",
                                         DistanceText(distance), Confidence(distance))))

find_vector_matches(c, pairs) == VectorLoop(VectorCandidates(c), pairs, <<>>)

----------------------------------------------------------------------------
(* find_meeting_connections *)

\* The <<meeting, entity>> pairs the two nested loops visit.
MeetingCandidates(entities) ==
    LET meeting_entities == SelectSeq(entities, LAMBDA e : IsMeeting(e.id))
    IN  Flatten([i \in 1..Len(meeting_entities) |->
            [j \in 1..Len(entities) |-> <<meeting_entities[i], entities[j]>>]])

RECURSIVE MeetingLoop(_, _, _)
MeetingLoop(cands, pairs, connections) ==
    IF cands = <<>> THEN [connections |-> connections, existing_pairs |-> pairs]
    ELSE LET meeting == Head(cands)[1]
             entity == Head(cands)[2]
             pair == SortedPair(meeting.id, entity.id)
         IN  IF \/ entity.id = meeting.id
                \/ pair \in pairs
                \/ ~(meeting.incident_ref # "" /\ entity.incident_ref = meeting.incident_ref)
             THEN MeetingLoop(Tail(cands), pairs, connections)
             ELSE MeetingLoop(Tail(cands), pairs \cup {pair},
                              Append(connections,
                                     Conn(meeting.id, entity.id, "shared_incident",
                                          meeting.incident_ref, MEETING_CONFIDENCE)))

find_meeting_connections(entities, pairs) == MeetingLoop(MeetingCandidates(entities), pairs, <<>>)

----------------------------------------------------------------------------
(* The SQLite database and store_connections *)

\* init_sqlite_db on a fresh file: both tables empty.
EmptyDb == [entity_metadata |-> {}, entity_connections |-> {}, seq |-> 0]

\* match_reason.split(":")[0]
ConnectionType(match_reason) == match_reason[1]

SourceOf(entities, id) ==
    LET hits == SelectSeq(entities, LAMBDA e : e.id = id)
    IN  IF hits = <<>> THEN "" ELSE hits[1].source

ForwardRow(c, entities) ==
    [source_entity_id |-> c.source, source_type |-> SourceOf(entities, c.source),
     target_entity_id |-> c.target, target_type |-> SourceOf(entities, c.target),
     connection_type |-> ConnectionType(c.match_reason),
     confidence_score |-> c.confidence, match_reason |-> c.match_reason]

ReverseRowNotSwapped(c, entities) == ForwardRow(c, entities)
ReverseRow(c, entities) ==
    [source_entity_id |-> c.target, source_type |-> SourceOf(entities, c.target),
     target_entity_id |-> c.source, target_type |-> SourceOf(entities, c.source),
     connection_type |-> ConnectionType(c.match_reason),
     confidence_score |-> c.confidence, match_reason |-> c.match_reason]

WithId(row, id) ==
    [id |-> id,
     source_entity_id |-> row.source_entity_id, source_type |-> row.source_type,
     target_entity_id |-> row.target_entity_id, target_type |-> row.target_type,
     connection_type |-> row.connection_type,
     confidence_score |-> row.confidence_score, match_reason |-> row.match_reason]

\* INSERT OR REPLACE INTO entity_connections under
\* UNIQUE(source_entity_id, target_entity_id) and an AUTOINCREMENT id.
InsertConnectionNoReplace(d, row) ==
    [entity_metadata |-> d.entity_metadata,
     entity_connections |-> d.entity_connections \cup {WithId(row, d.seq + 1)},
     seq |-> d.seq + 1]
InsertOrIgnoreConnection(d, row) ==
    IF \E r \in d.entity_connections :
          r.source_entity_id = row.source_entity_id
          /\ r.target_entity_id = row.target_entity_id
    THEN d
    ELSE InsertConnectionNoReplace(d, row)
InsertOrReplaceConnection(d, row) ==
    [entity_metadata |-> d.entity_metadata,
     entity_connections |->
        {r \in d.entity_connections :
            ~(r.source_entity_id = row.source_entity_id
              /\ r.target_entity_id = row.target_entity_id)}
        \cup {WithId(row, d.seq + 1)},
     seq |-> d.seq + 1]

\* INSERT OR REPLACE INTO entity_metadata, entity_id being the primary key.
InsertOrReplaceMetadata(d, e) ==
    [entity_metadata |->
        {m \in d.entity_metadata : m.entity_id # e.id}
        \cup {[entity_id |-> e.id, source |-> e.source, incident_ref |-> e.incident_ref]},
     entity_connections |-> d.entity_connections,
     seq |-> d.seq]

RECURSIVE CacheMetadata(_, _)
CacheMetadata(d, entities) ==
    IF entities = <<>> THEN d
    ELSE CacheMetadata(InsertOrReplaceMetadata(d, Head(entities)), Tail(entities))

RECURSIVE StoreLoop(_, _, _)
StoreLoop(d, connections, entities) ==
    IF connections = <<>> THEN d
    ELSE StoreLoop(
            InsertOrReplaceConnection(
                InsertOrReplaceConnection(d, ForwardRow(Head(connections), entities)),
                ReverseRow(Head(connections), entities)),
            Tail(connections), entities)

\* entity.get("document", "")[:500] raises TypeError on a document of None,
\* before anything is committed.
StoreRaises(entities) == \E i \in 1..Len(entities) : entities[i].null_document

store_connections(d, connections, entities) ==
    StoreLoop(CacheMetadata(d, entities), connections, entities)

----------------------------------------------------------------------------
(* main *)

PairsOfConnections(connections) ==
    {SortedPair(connections[i].source, connections[i].target) : i \in 1..Len(connections)}

\* One run of main over corpus c, the reference sets iterated in `order`.
MainRun(d, c, order) ==
    LET entities == Corpora[c].entities
        regex == find_regex_matches(entities, order)
        vector == find_vector_matches(c, PairsOfConnections(regex))
        meeting == find_meeting_connections(entities, vector.existing_pairs)
        all_connections == regex \o vector.connections \o meeting.connections
    IN  [regex_connections |-> regex,
         vector_connections |-> vector.connections,
         meeting_connections |-> meeting.connections,
         existing_pairs |-> meeting.existing_pairs,
         status |-> IF StoreRaises(entities) THEN "crashed" ELSE "ok",
         db |-> IF StoreRaises(entities) THEN d
                ELSE store_connections(d, all_connections, entities)]

\* One run of main in which chroma_client.get_collection raises inside
\* find_vector_matches: nothing catches the exception, so main ends there,
\* after the reference pass and before the meeting pass and store_connections.
MainRunIndexDown(d, c, order) ==
    LET regex == find_regex_matches(Corpora[c].entities, order)
    IN  [regex_connections |-> regex,
         vector_connections |-> <<>>,
         meeting_connections |-> <<>>,
         existing_pairs |-> PairsOfConnections(regex),
         status |-> "index_error",
         db |-> d]

GraphIdle ==
    /\ g_entry = "none"
    /\ summaries = <<>>
    /\ root_summary_ids = <<>>
    /\ lookups = <<>>
    /\ g_pc = "idle"
    /\ sub_entity_ids = <<>>
    /\ max_depth = 0
    /\ nodes = <<>>
    /\ edges = <<>>
    /\ seen_edges = {}
    /\ entities_to_process = <<>>
    /\ processed = {}
    /\ current_depth = 0
    /\ next_level = <<>>
    /\ idx = 1

QueryIdle ==
    /\ q_pc = "idle"
    /\ q_entity_id = ""
    /\ q_depth = 0
    /\ visited = {}
    /\ graph = [nodes |-> <<>>, edges |-> <<>>]

\* No run has begun and the reader has not asked anything.
StoreIdle ==
    /\ w_pc = "idle"
    /\ w_corpus = 0
    /\ w_order = CHOOSE o \in HashOrders : TRUE
    /\ w_db = db
    /\ w_todo = <<>>
    /\ before = db
    /\ r_view = db
    /\ r_run = 0
    /\ r_at = "idle"

Init ==
    /\ chroma \in 1..Len(Corpora)
    /\ db = EmptyDb
    /\ runs = 0
    /\ run_status = "none"
    /\ regex_connections = <<>>
    /\ vector_connections = <<>>
    /\ meeting_connections = <<>>
    /\ existing_pairs = {}
    /\ last_built = 0
    /\ rebuild = FALSE
    /\ GraphIdle
    /\ QueryIdle
    /\ StoreIdle

\* The ingestion pipeline replaces the content of the collection between runs.
Ingest ==
    /\ runs < MaxRuns
    /\ run_status # "none"
    /\ w_pc \in {"idle", "done", "raised"}
    /\ \E c \in 1..Len(Corpora) : c # chroma /\ chroma' = c
    /\ run_status' = "none"
    /\ UNCHANGED <<db, runs, regex_connections, vector_connections, meeting_connections,
                   existing_pairs, last_built, rebuild>>
    /\ UNCHANGED graphVars
    /\ UNCHANGED queryVars
    /\ UNCHANGED storeVars

Main ==
    /\ runs < MaxRuns
    /\ \E order \in HashOrders, index_up \in BOOLEAN :
         \E r \in {IF index_up THEN MainRun(db, chroma, order)
                    ELSE MainRunIndexDown(db, chroma, order)} :
             /\ regex_connections' = r.regex_connections
             /\ vector_connections' = r.vector_connections
             /\ meeting_connections' = r.meeting_connections
             /\ existing_pairs' = r.existing_pairs
             /\ run_status' = r.status
             /\ db' = r.db
             /\ last_built' = IF r.status = "ok" THEN chroma ELSE last_built
             /\ rebuild' = (last_built = chroma)
    /\ runs' = runs + 1
    /\ UNCHANGED chroma
    /\ UNCHANGED graphVars
    /\ UNCHANGED queryVars
    /\ UNCHANGED storeVars

Next == Ingest \/ Main

Spec == Init /\ [][Next]_vars

----------------------------------------------------------------------------
(* query_connections.get_connections *)

\* WHERE ec.source_entity_id = ? AND ec.confidence_score >= ? [AND ec.target_type = ?];
\* filter_source = "" stands for None.
SelectConnectionsAbove(d, entity_id, filter_source, min_confidence) ==
    {r \in d.entity_connections :
        /\ r.source_entity_id = entity_id
        /\ r.confidence_score > min_confidence
        /\ (filter_source # "" => r.target_type = filter_source)}
SelectConnections(d, entity_id, filter_source, min_confidence) ==
    {r \in d.entity_connections :
        /\ r.source_entity_id = entity_id
        /\ r.confidence_score >= min_confidence
        /\ (filter_source # "" => r.target_type = filter_source)}

\* ORDER BY ec.confidence_score DESC: every order of the rows in which the
\* confidence never increases (SQL leaves the order of equal scores open).
RECURSIVE OrderArbitrary(_)
OrderArbitrary(S) ==
    IF S = {} THEN {<<>>}
    ELSE UNION {{<<r>> \o s : s \in OrderArbitrary(S \ {r})} : r \in S}
RECURSIVE OrderByConfidenceDesc(_)
OrderByConfidenceDesc(S) ==
    IF S = {} THEN {<<>>}
    ELSE UNION {{<<r>> \o s : s \in OrderByConfidenceDesc(S \ {r})} :
                r \in {x \in S : \A y \in S : y.confidence_score <= x.confidence_score}}

\* em.incident_ref of the LEFT JOIN, "" when the target has no metadata row
JoinedIncidentRef(d, entity_id) ==
    IF \E m \in d.entity_metadata : m.entity_id = entity_id
    THEN (CHOOSE m \in d.entity_metadata : m.entity_id = entity_id).incident_ref
    ELSE ""

\* The dict appended for one fetched row
ConnectionRecord(d, r) ==
    [entity_id |-> r.target_entity_id, connection_type |-> r.connection_type,
     confidence |-> r.confidence_score, match_reason |-> r.match_reason,
     incident_ref |-> JoinedIncidentRef(d, r.target_entity_id)]

\* connections[target_type].append({...}) over the fetched rows; dict(connections)
GroupByTargetType(d, rows) ==
    [t \in {rows[i].target_type : i \in 1..Len(rows)} |->
        LET hits == SelectSeq(rows, LAMBDA r : r.target_type = t)
        IN  [i \in 1..Len(hits) |-> ConnectionRecord(d, hits[i])]]

\* get_connections(conn, entity_id, filter_source, min_confidence): the
\* mappings the call can return.
get_connections(d, entity_id, filter_source, min_confidence) ==
    {GroupByTargetType(d, rows) :
        rows \in OrderByConfidenceDesc(
                    SelectConnections(d, entity_id, filter_source, min_confidence))}

\* build_connections.get_entity_connections(conn, entity_id): the same
\* query without the two filters.
get_entity_connections_grouped(d, entity_id) ==
    {GroupByTargetType(d, rows) :
        rows \in OrderByConfidenceDesc({r \in d.entity_connections :
                                          r.source_entity_id = entity_id})}

----------------------------------------------------------------------------
(* mcp_api.build_connection_graph *)

\* get_entity_metadata(entity_id) is not None
get_entity_metadata(d, entity_id) == \E m \in d.entity_metadata : m.entity_id = entity_id

\* get_entity_connections(entity_id): the possible result lists
get_entity_connections(d, entity_id) ==
    OrderByConfidenceDesc(SelectConnections(d, entity_id, "", 0))

add_node_unchecked(d, ns, entity_id) ==
    IF entity_id \in Range(ns) THEN ns ELSE Append(ns, entity_id)
add_node(d, ns, entity_id) ==
    IF entity_id \in Range(ns) THEN ns
    ELSE IF get_entity_metadata(d, entity_id) THEN Append(ns, entity_id)
         ELSE ns

\* get_entity_by_id(entity_id): the values the call can return; None is the
\* record with is_none, EntityDetails carries the connections grouped by
\* target_source in fetch order.
get_entity_by_id(d, entity_id) ==
    IF ~get_entity_metadata(d, entity_id)
    THEN {[is_none |-> TRUE]}
    ELSE {[is_none |-> FALSE,
           entity_id |-> entity_id,
           source |-> (CHOOSE m \in d.entity_metadata : m.entity_id = entity_id).source,
           incident_ref |-> JoinedIncidentRef(d, entity_id),
           connections |-> GroupByTargetType(d, connections)] :
              connections \in get_entity_connections(d, entity_id)}

\* edge_key = tuple(sorted([source_id, target_id]))
EdgeKeyDirected(source_id, target_id) == <<source_id, target_id>>
EdgeKey(source_id, target_id) == SortedPair(source_id, target_id)

GraphEdge(source_id, conn) ==
    [source |-> source_id, target |-> conn.target_entity_id,
     connection_type |-> conn.connection_type, confidence |-> conn.confidence_score,
     match_reason |-> conn.match_reason]

\* The body of "for conn in connections", folded over the result list; st
\* holds nodes, edges, seen_edges and next_level.
RECURSIVE ConnLoop(_, _, _, _, _, _, _)
ConnLoop(d, entity_id, connections, st, done, depth, maxd) ==
    IF connections = <<>> THEN st
    ELSE LET conn == Head(connections)
             target_id == conn.target_entity_id
             key == EdgeKey(entity_id, target_id)
             fresh == key \notin st.seen_edges
         IN  ConnLoop(d, entity_id, Tail(connections),
                 [nodes |-> add_node(d, st.nodes, target_id),
                  edges |-> IF fresh THEN Append(st.edges, GraphEdge(entity_id, conn))
                            ELSE st.edges,
                  seen_edges |-> IF fresh THEN st.seen_edges \cup {key} ELSE st.seen_edges,
                  next_level |-> IF target_id \notin done /\ depth < maxd
                                 THEN Append(st.next_level, target_id)
                                 ELSE st.next_level],
                 done, depth, maxd)

\* entities_to_process = next_level; current_depth += 1
LevelEndStuck(todo, level, depth) ==
    [entities_to_process |-> todo, current_depth |-> depth]
LevelEndDropsLevel(todo, level, depth) ==
    [entities_to_process |-> <<>>, current_depth |-> depth + 1]
LevelEndSameDepth(todo, level, depth) ==
    [entities_to_process |-> level, current_depth |-> depth]
LevelEnd(todo, level, depth) ==
    [entities_to_process |-> level, current_depth |-> depth + 1]

SeedLists == UNION {[1..n -> IDs] : n \in 0..MaxSeeds}

\* The calls of get_entity_metadata that add_node makes for the entity IDs
\* `ids` in turn: none for an ID that is already a key of nodes.
RECURSIVE NodeLookups(_, _, _)
NodeLookups(d, ns, ids) ==
    IF ids = <<>> THEN <<>>
    ELSE (IF Head(ids) \in Range(ns) THEN <<>>
          ELSE << <<"get_entity_metadata", Head(ids)>> >>)
         \o NodeLookups(d, add_node(d, ns, Head(ids)), Tail(ids))

\* The store lookups of one iteration of the for loop over entity_id.
EntityLookups(d, ns, entity_id, connections) ==
    NodeLookups(d, ns, <<entity_id>>)
    \o << <<"get_entity_connections", entity_id>> >>
    \o NodeLookups(d, add_node(d, ns, entity_id),
                   [i \in 1..Len(connections) |-> connections[i].target_entity_id])

----------------------------------------------------------------------------
(* mcp_api.search_with_connections *)

\* The weekly summaries of the collection "weekly_summaries", with the
\* sub_entity_ids that metadata['sub_entity_ids'].split(',') gives; an empty
\* item comes from two commas in a row.
WeeklySummaries ==
    { [summary_id |-> "weekly_summary_2024-W01",
       sub_entity_ids |-> <<"jira_ENG-1", "slack_T1">>],
      [summary_id |-> "weekly_summary_2024-W02",
       sub_entity_ids |-> <<"slack_T1", "", "meeting_M1", "jira_ENG-1">>],
      [summary_id |-> "weekly_summary_2024-W03",
       sub_entity_ids |-> <<>>] }

\* search_weekly_summaries(query, n_results=top_k): at most top_k different
\* summaries, nearest first, for some query and some top_k <= MaxSummaries.
SummaryResults ==
    {ss \in UNION {[1..n -> WeeklySummaries] : n \in 0..MaxSummaries} :
        \A i \in 1..Len(ss), j \in 1..Len(ss) : i # j => ss[i] # ss[j]}

RootSummaryIds(ss) == [i \in 1..Len(ss) |-> ss[i].summary_id]

AllSubEntityIds(ss) == Flatten([i \in 1..Len(ss) |-> ss[i].sub_entity_ids])

\* if eid and eid not in seen: seen.add(eid); unique_sub_entity_ids.append(eid)
UniqueSubEntityIdsNoDedup(ids) == SelectSeq(ids, LAMBDA eid : eid # "")
UniqueSubEntityIds(ids) == FirstOccurrences(SelectSeq(ids, LAMBDA eid : eid # ""), {})

\* ConnectionGraph(root_summaries=..., nodes=..., edges=..., node_count=len(nodes),
\* edge_count=len(edges))
ConnectionGraphCountsOneMore(root_ids, ns, es) ==
    [root_summaries |-> root_ids, nodes |-> ns, edges |-> es,
     node_count |-> Len(ns) + 1, edge_count |-> Len(es)]
ConnectionGraph(root_ids, ns, es) ==
    [root_summaries |-> root_ids, nodes |-> ns, edges |-> es,
     node_count |-> Len(ns), edge_count |-> Len(es)]

\* A call search_with_connections(query, top_k, graph_depth) up to its call
\* of build_connection_graph, whose loop the actions below run.
SearchWithConnections ==
    /\ g_pc = "idle"
    /\ \E ss \in SummaryResults, d \in 1..MaxDepth :
         /\ summaries' = ss
         /\ root_summary_ids' = RootSummaryIds(ss)
         /\ sub_entity_ids' = UniqueSubEntityIds(AllSubEntityIds(ss))
         /\ entities_to_process' = UniqueSubEntityIds(AllSubEntityIds(ss))
         /\ max_depth' = d
    /\ g_entry' = "search_with_connections"
    /\ lookups' = <<>>
    /\ nodes' = <<>>
    /\ edges' = <<>>
    /\ seen_edges' = {}
    /\ processed' = {}
    /\ current_depth' = 0
    /\ next_level' = <<>>
    /\ idx' = 1
    /\ g_pc' = "while"
    /\ UNCHANGED buildVars
    /\ UNCHANGED queryVars
    /\ UNCHANGED storeVars

----------------------------------------------------------------------------
(* mcp_api.build_connection_graph: the call and its loop *)

\* A call build_connection_graph(seeds, max_depth=d)
BuildConnectionGraph ==
    /\ g_pc = "idle"
    /\ \E seeds \in SeedLists, d \in 0..MaxDepth :
         /\ sub_entity_ids' = seeds
         /\ max_depth' = d
         /\ entities_to_process' = seeds
    /\ g_entry' = "build_connection_graph"
    /\ summaries' = <<>>
    /\ root_summary_ids' = <<>>
    /\ lookups' = <<>>
    /\ nodes' = <<>>
    /\ edges' = <<>>
    /\ seen_edges' = {}
    /\ processed' = {}
    /\ current_depth' = 0
    /\ next_level' = <<>>
    /\ idx' = 1
    /\ g_pc' = "while"
    /\ UNCHANGED buildVars
    /\ UNCHANGED queryVars
    /\ UNCHANGED storeVars

\* while entities_to_process and current_depth <= max_depth
WhileTest ==
    /\ g_pc = "while"
    /\ IF entities_to_process # <<>> /\ current_depth <= max_depth
       THEN /\ g_pc' = "for"
            /\ next_level' = <<>>
            /\ idx' = 1
       ELSE /\ g_pc' = "done"
            /\ UNCHANGED <<next_level, idx>>
    /\ UNCHANGED <<sub_entity_ids, max_depth, nodes, edges, seen_edges,
                   entities_to_process, processed, current_depth>>
    /\ UNCHANGED <<g_entry, summaries, root_summary_ids, lookups>>
    /\ UNCHANGED buildVars
    /\ UNCHANGED queryVars
    /\ UNCHANGED storeVars

\* One iteration of "for entity_id in entities_to_process"
ProcessEntity ==
    /\ g_pc = "for"
    /\ idx <= Len(entities_to_process)
    /\ LET entity_id == entities_to_process[idx]
       IN  IF entity_id \in processed
           THEN UNCHANGED <<processed, nodes, edges, seen_edges, next_level, lookups>>
           ELSE /\ processed' = processed \cup {entity_id}
                /\ \E connections \in get_entity_connections(db, entity_id) :
                     \E st \in {ConnLoop(db, entity_id, connections,
                                         [nodes |-> add_node(db, nodes, entity_id),
                                          edges |-> edges, seen_edges |-> seen_edges,
                                          next_level |-> next_level],
                                         processed \cup {entity_id}, current_depth,
                                         max_depth)} :
                         /\ lookups' = lookups \o EntityLookups(db, nodes, entity_id,
                                                                  connections)
                         /\ nodes' = st.nodes
                         /\ edges' = st.edges
                         /\ seen_edges' = st.seen_edges
                         /\ next_level' = st.next_level
    /\ idx' = idx + 1
    /\ UNCHANGED <<g_pc, sub_entity_ids, max_depth, entities_to_process, current_depth>>
    /\ UNCHANGED <<g_entry, summaries, root_summary_ids>>
    /\ UNCHANGED buildVars
    /\ UNCHANGED queryVars
    /\ UNCHANGED storeVars

\* The end of the for loop: the next level becomes the frontier
ForEnd ==
    /\ g_pc = "for"
    /\ idx > Len(entities_to_process)
    /\ LET e == LevelEnd(entities_to_process, next_level, current_depth)
       IN  /\ entities_to_process' = e.entities_to_process
           /\ current_depth' = e.current_depth
    /\ g_pc' = "while"
    /\ UNCHANGED <<sub_entity_ids, max_depth, nodes, edges, seen_edges, processed,
                   next_level, idx>>
    /\ UNCHANGED <<g_entry, summaries, root_summary_ids, lookups>>
    /\ UNCHANGED buildVars
    /\ UNCHANGED queryVars
    /\ UNCHANGED storeVars

\* The graph is served from the store as one run of main over a corpus left it.
GraphInit ==
    /\ \E c \in 1..Len(Corpora), order \in HashOrders :
         \E r \in {MainRun(EmptyDb, c, order)} :
             /\ chroma = c
             /\ db = r.db
             /\ run_status = r.status
             /\ regex_connections = r.regex_connections
             /\ vector_connections = r.vector_connections
             /\ meeting_connections = r.meeting_connections
             /\ existing_pairs = r.existing_pairs
             /\ last_built = IF r.status = "ok" THEN c ELSE 0
    /\ runs = 1
    /\ rebuild = FALSE
    /\ GraphIdle
    /\ QueryIdle
    /\ StoreIdle

GraphNext ==
    BuildConnectionGraph \/ SearchWithConnections \/ WhileTest \/ ProcessEntity \/ ForEnd

GraphSpec == GraphInit /\ [][GraphNext]_vars

\* The interpreter keeps running the call until it returns.
GraphLive == GraphSpec /\ WF_vars(WhileTest) /\ WF_vars(ProcessEntity) /\ WF_vars(ForEnd)

----------------------------------------------------------------------------
(* query_connections.get_connection_graph *)

\* Entity IDs a caller may ask for: those of the model and one that no
\* collection holds.
QueryIds == IDs \cup {"jira_ENG-404"}

\* min_confidence of the get_connections call in traverse
TRAVERSE_MIN_CONFIDENCE == 800

\* get_entity_info(conn, entity_id) is not None
get_entity_info(d, entity_id) == \E m \in d.entity_metadata : m.entity_id = entity_id

\* "for source_type, conns in connections.items(): for c in conns" over the
\* fetched rows: the target types in the order of their first row, the rows
\* of one type in the order fetched.
ItemsOrder(rows) ==
    LET types == FirstOccurrences([i \in 1..Len(rows) |-> rows[i].target_type], {})
    IN  Flatten([i \in 1..Len(types) |->
                    SelectSeq(rows, LAMBDA r : r.target_type = types[i])])

\* The orders in which traverse can meet the neighbours of current_id
NeighbourOrders(d, current_id) ==
    {ItemsOrder(rows) :
        rows \in OrderByConfidenceDesc(
                    SelectConnections(d, current_id, "", TRAVERSE_MIN_CONFIDENCE))}

QueryEdge(current_id, r) ==
    [from |-> current_id, to |-> r.target_entity_id,
     confidence |-> r.confidence_score, reason |-> r.match_reason]

\* traverse(current_id, current_depth), at_depth being current_depth, on the state st of visited and graph:
\* the states the call can leave, one for every order of the neighbours.
RECURSIVE traverse(_, _, _, _, _)
RECURSIVE TraverseConns(_, _, _, _, _, _)
traverse(d, st, current_id, at_depth, depth_limit) ==
    IF current_id \in st.visited \/ at_depth > depth_limit THEN {st}
    ELSE LET entered ==
                 [visited |-> st.visited \cup {current_id},
                  nodes |-> IF get_entity_info(d, current_id)
                            THEN Append(st.nodes, current_id) ELSE st.nodes,
                  edges |-> st.edges]
         IN  UNION {TraverseConns(d, entered, current_id, conns, at_depth,
                                  depth_limit) :
                    conns \in NeighbourOrders(d, current_id)}
\* The loop over the neighbours of current_id from the row Head(conns) on
TraverseConns(d, st, current_id, conns, at_depth, depth_limit) ==
    IF conns = <<>> THEN {st}
    ELSE LET with_edge == [st EXCEPT !.edges = Append(@, QueryEdge(current_id, Head(conns)))]
         IN  IF at_depth < depth_limit
             THEN UNION {TraverseConns(d, deeper, current_id, Tail(conns),
                                       at_depth, depth_limit) :
                         deeper \in traverse(d, with_edge, Head(conns).target_entity_id,
                                             at_depth + 1, depth_limit)}
             ELSE TraverseConns(d, with_edge, current_id, Tail(conns),
                                at_depth, depth_limit)

\* get_connection_graph(conn, entity_id, depth): the results the call can return
get_connection_graph(d, entity_id, depth_limit) ==
    traverse(d, [visited |-> {}, nodes |-> <<>>, edges |-> <<>>], entity_id, 0,
             depth_limit)

\* A call get_connection_graph(conn, entity_id, depth), run to its return
GetConnectionGraph ==
    /\ q_pc = "idle"
    /\ \E entity_id \in QueryIds, depth_limit \in 0..MaxDepth :
         \E st \in get_connection_graph(db, entity_id, depth_limit) :
             /\ q_entity_id' = entity_id
             /\ q_depth' = depth_limit
             /\ visited' = st.visited
             /\ graph' = [nodes |-> st.nodes, edges |-> st.edges]
    /\ q_pc' = "done"
    /\ UNCHANGED buildVars
    /\ UNCHANGED graphVars
    /\ UNCHANGED storeVars

QueryNext == GetConnectionGraph

QuerySpec == GraphInit /\ [][QueryNext]_vars

----------------------------------------------------------------------------
(* main and store_connections statement by statement, next to a reader *)

\* The committed database after a cursor.execute of the builder: the
\* connection is opened without autocommit, so the statement changes only
\* what the builder's own connection sees.
AfterExecuteAutocommit(committed, pending) == pending
AfterExecute(committed, pending) == committed

InTransaction == w_pc \in {"metadata", "forward", "reverse"}

\* main up to the call of store_connections: the entities are loaded and
\* the three passes run; nothing is written yet.
BeginStore ==
    /\ w_pc \in {"idle", "done", "raised"}
    /\ runs < MaxRuns
    /\ \E order \in HashOrders :
         \E r \in {MainRun(db, chroma, order)} :
             /\ w_order' = order
             /\ regex_connections' = r.regex_connections
             /\ vector_connections' = r.vector_connections
             /\ meeting_connections' = r.meeting_connections
             /\ existing_pairs' = r.existing_pairs
             /\ w_todo' = r.regex_connections \o r.vector_connections
                              \o r.meeting_connections
    /\ w_corpus' = chroma
    /\ w_db' = db
    /\ before' = db
    /\ w_pc' = "metadata"
    /\ runs' = runs + 1
    /\ UNCHANGED <<chroma, db, run_status, last_built, rebuild>>
    /\ UNCHANGED <<r_view, r_run, r_at>>
    /\ UNCHANGED graphVars
    /\ UNCHANGED queryVars

\* The loop "for entity_id, entity in entities.items()": it raises on a
\* document of None, and the run ends without a commit.
CacheMetadataStep ==
    /\ w_pc = "metadata"
    /\ IF StoreRaises(Corpora[w_corpus].entities)
       THEN /\ w_pc' = "raised"
            /\ w_db' = db
            /\ w_todo' = <<>>
            /\ run_status' = "crashed"
            /\ rebuild' = (last_built = w_corpus)
            /\ UNCHANGED db
       ELSE /\ w_pc' = "forward"
            /\ w_db' = CacheMetadata(w_db, Corpora[w_corpus].entities)
            /\ db' = AfterExecute(db, w_db')
            /\ UNCHANGED <<w_todo, run_status, rebuild>>
    /\ UNCHANGED <<chroma, runs, regex_connections, vector_connections,
                   meeting_connections, existing_pairs, last_built>>
    /\ UNCHANGED <<w_corpus, w_order, before, r_view, r_run, r_at>>
    /\ UNCHANGED graphVars
    /\ UNCHANGED queryVars

\* "Store forward connection" for the next connection
StoreForward ==
    /\ w_pc = "forward"
    /\ w_todo # <<>>
    /\ w_db' = InsertOrReplaceConnection(w_db, ForwardRow(Head(w_todo),
                                                          Corpora[w_corpus].entities))
    /\ db' = AfterExecute(db, w_db')
    /\ w_pc' = "reverse"
    /\ UNCHANGED <<chroma, runs, run_status, regex_connections, vector_connections,
                   meeting_connections, existing_pairs, last_built, rebuild>>
    /\ UNCHANGED <<w_corpus, w_order, w_todo, before, r_view, r_run, r_at>>
    /\ UNCHANGED graphVars
    /\ UNCHANGED queryVars

\* "Store reverse connection" for the same connection
StoreReverse ==
    /\ w_pc = "reverse"
    /\ w_db' = InsertOrReplaceConnection(w_db, ReverseRow(Head(w_todo),
                                                          Corpora[w_corpus].entities))
    /\ db' = AfterExecute(db, w_db')
    /\ w_todo' = Tail(w_todo)
    /\ w_pc' = "forward"
    /\ UNCHANGED <<chroma, runs, run_status, regex_connections, vector_connections,
                   meeting_connections, existing_pairs, last_built, rebuild>>
    /\ UNCHANGED <<w_corpus, w_order, before, r_view, r_run, r_at>>
    /\ UNCHANGED graphVars
    /\ UNCHANGED queryVars

\* conn.commit() after the last connection
Commit ==
    /\ w_pc = "forward"
    /\ w_todo = <<>>
    /\ db' = w_db
    /\ w_pc' = "done"
    /\ run_status' = "ok"
    /\ last_built' = w_corpus
    /\ rebuild' = (last_built = w_corpus)
    /\ UNCHANGED <<chroma, runs, regex_connections, vector_connections,
                   meeting_connections, existing_pairs>>
    /\ UNCHANGED <<w_corpus, w_order, w_db, w_todo, before,
                   r_view, r_run, r_at>>
    /\ UNCHANGED graphVars
    /\ UNCHANGED queryVars

\* mcp_api.get_entity_connections(entity_id) in another process: it opens a
\* connection of its own and is answered from the committed database,
\* whatever entity_id it asks for.
ReadConnections ==
    /\ r_view' = db
    /\ r_run' = runs
    /\ r_at' = w_pc
    /\ UNCHANGED <<w_pc, w_corpus, w_order, w_db, w_todo, before>>
    /\ UNCHANGED buildVars
    /\ UNCHANGED graphVars
    /\ UNCHANGED queryVars

StoreNext ==
    \/ Ingest
    \/ BeginStore
    \/ CacheMetadataStep
    \/ StoreForward
    \/ StoreReverse
    \/ Commit
    \/ ReadConnections

StoreSpec == Init /\ [][StoreNext]_vars

----------------------------------------------------------------------------
(* Vocabulary of the properties *)

Rows == db.entity_connections

\* The corpus the last run of main read is the current content of the collection.
BuiltCurrent == run_status \in {"ok", "crashed"}
Committed == run_status = "ok"

CurrentEntities == Range(Corpora[chroma].entities)

ReferenceMatchTypes == {"shared_incident", "shared_jira", "pr_reference"}

\* The ticket entity, and the pull request entity, that a reference names.
JiraId(ref) ==
    CASE ref = "ENG-1" -> "jira_ENG-1"
      [] ref = "ENG-2" -> "jira_ENG-2"
      [] OTHER         -> "jira_?"

IncidentRefs(e) ==
    (IF e.incident_ref # "" THEN {e.incident_ref} ELSE {}) \cup extract_references(e).incident_refs
JiraRefs(e) == extract_references(e).jira_refs
PrRefs(e) == extract_references(e).pr_refs

EntityById(id) == CHOOSE e \in CurrentEntities : e.id = id

\* The similarity pass would keep the pair if nothing had connected it before.
SimilarityMatch(a, b) ==
    /\ IsJira(a.id)
    /\ ~IsJira(b.id)
    /\ ~Falsy(a)
    /\ Distance(chroma, a.id, b.id) < VECTOR_SIMILARITY_THRESHOLD
    /\ Confidence(Distance(chroma, a.id, b.id)) >= MIN_CONFIDENCE_SCORE

RECURSIVE WithinHops(_, _, _)
WithinHops(d, S, k) ==
    IF k = 0 THEN S
    ELSE WithinHops(d,
                    S \cup {r.target_entity_id : r \in {x \in d.entity_connections :
                                                          x.source_entity_id \in S}},
                    k - 1)

----------------------------------------------------------------------------
(* Properties *)

\* C1: symmetry of the Connection Store.  After any sequence of builds, if
\* the rows returned for source A contain target B, then the rows returned
\* for source B contain target A with the same confidence_score,
\* connection_type and match_reason.
C1_Symmetry ==
    \A A \in IDs, B \in IDs :
        \A r \in SelectConnections(db, A, "", 0) :
            r.target_entity_id = B =>
                \E q \in SelectConnections(db, B, "", 0) :
                    /\ q.target_entity_id = A
                    /\ q.confidence_score = r.confidence_score
                    /\ q.connection_type = r.connection_type
                    /\ q.match_reason = r.match_reason

\* C1 witness: two builds have run and a connection between two different
\* entities, written again by the second build, is stored.
C1_Witness ==
    /\ runs >= 2
    /\ Committed
    /\ \E r \in Rows : r.source_entity_id # r.target_entity_id /\ r.id > 2

\* C2: no self-loops.  No connection produced by find_regex_matches,
\* find_vector_matches or find_meeting_connections and no stored row has
\* source_id equal to target_id.
C2_NoSelfLoops ==
    /\ \A c \in Range(regex_connections) \cup Range(vector_connections)
                \cup Range(meeting_connections) : c.source # c.target
    /\ \A r \in Rows : r.source_entity_id # r.target_entity_id

\* C3: traversal depth bound.  build_connection_graph(seeds, max_depth=d)
\* returns no node that is more than d hops away from every seed.
C3_DepthBound ==
    g_pc = "done" =>
        Range(nodes) \subseteq WithinHops(db, Range(sub_entity_ids), max_depth)

\* C4: depth-0 traversal.  With max_depth = 0 the nodes returned are seeds
\* with metadata only and every edge returned joins two seeds.
C4_DepthZero ==
    (g_pc = "done" /\ max_depth = 0) =>
        /\ Range(nodes) \subseteq {s \in Range(sub_entity_ids) : get_entity_metadata(db, s)}
        /\ \A e \in Range(edges) :
               e.source \in Range(sub_entity_ids) /\ e.target \in Range(sub_entity_ids)

\* C5: traversal termination.  Every call of build_connection_graph that
\* has started returns, whatever cycles the store holds.
C5_Termination == (g_pc \in {"while", "for"}) ~> (g_pc = "done")

\* C5 witness: a call with max_depth >= 1 has returned after walking a cycle
\* of the store: three processed entities that are pairwise connected.
C5_Witness ==
    /\ g_pc = "done"
    /\ max_depth >= 1
    /\ \E a \in processed, b \in processed, c \in processed :
          /\ a # b /\ b # c /\ a # c
          /\ {EdgeKey(a, b), EdgeKey(b, c), EdgeKey(a, c)} \subseteq seen_edges

\* C6: traversal dedup.  The edge list never holds two edges for the same
\* unordered pair {A, B}.
C6_TraversalDedup ==
    \A i \in 1..Len(edges), j \in 1..Len(edges) :
        i # j => {edges[i].source, edges[i].target} # {edges[j].source, edges[j].target}

\* C6 witness: a returned edge whose two different endpoints were both
\* processed, so the pair was met from both of its ends.
C6_Witness ==
    /\ g_pc = "done"
    /\ \E e \in Range(edges) :
          e.source # e.target /\ e.source \in processed /\ e.target \in processed

\* C7: canonical-owner reference match.  When the collection holds the
\* ticket entity of a reference, its own text holding no reference, and
\* another entity whose text mentions that reference, then after the build
\* the connections of the ticket hold the mentioning entity with a
\* reference-match connection of confidence 0.90.
C7_CanonicalOwnerMatch ==
    Committed =>
        \A owner \in CurrentEntities, e \in CurrentEntities :
            \A ref \in JiraRefs(e) :
                (/\ owner.id = JiraId(ref)
                 /\ e.id # owner.id
                 /\ IncidentRefs(owner) = {} /\ JiraRefs(owner) = {} /\ PrRefs(owner) = {}
                 /\ ~Falsy(owner))
                => \E r \in SelectConnections(db, owner.id, "", 0) :
                       /\ r.target_entity_id = e.id
                       /\ r.connection_type \in ReferenceMatchTypes
                       /\ r.confidence_score = JIRA_CONFIDENCE

RowsWithReason(d) ==
    {<<r.source_entity_id, r.target_entity_id, r.connection_type, r.confidence_score,
       r.match_reason>> : r \in d.entity_connections}

RowsWithoutReason(d) ==
    {<<r.source_entity_id, r.target_entity_id, r.connection_type, r.confidence_score>> :
        r \in d.entity_connections}

\* A committed run of main over the corpus of the committed run before it.
SecondRun == runs' = runs + 1 /\ last_built = chroma /\ run_status' = "ok"

\* C10 as stated: idempotent rebuild.  A second run over an unchanged
\* collection leaves the same set of (source_id, target_id, connection_type,
\* confidence_score, match_reason) rows.
C10_IdempotentRebuild ==
    [][SecondRun => RowsWithReason(db') = RowsWithReason(db)]_vars

\* C10 amended: a second run over an unchanged collection leaves the same
\* set of (source_id, target_id, connection_type, confidence_score) rows and
\* adds no row; the match_reason of a pair that shares several references
\* of one kind may name another of them.
C10_IdempotentEdgeSet ==
    [][SecondRun =>
          /\ RowsWithoutReason(db') = RowsWithoutReason(db)
          /\ Cardinality(db'.entity_connections) = Cardinality(db.entity_connections)
          /\ \A r \in db'.entity_connections :
                \E q \in db.entity_connections :
                    /\ q.source_entity_id = r.source_entity_id
                    /\ q.target_entity_id = r.target_entity_id
                    /\ q.match_reason[1] = r.match_reason[1]]_vars

\* C10 witness: a second run over an unchanged collection has committed and
\* the store holds reference and similarity rows.
C10_Witness ==
    /\ rebuild
    /\ Committed
    /\ \E r \in Rows : r.connection_type = "vector_similarity"
    /\ \E r \in Rows : r.connection_type \in ReferenceMatchTypes

AllConnections ==
    Range(regex_connections) \cup Range(vector_connections) \cup Range(meeting_connections)

\* C11: confidence bounds.  Every connection produced by the reference, the
\* similarity and the meeting pass and every stored row has a
\* confidence_score between 0.0 and 1.0, both included, whatever
\* non-negative distances the vector index returns.
C11_ConfidenceBounds ==
    /\ \A c \in AllConnections : 0 <= c.confidence /\ c.confidence <= 1000
    /\ \A r \in Rows : 0 <= r.confidence_score /\ r.confidence_score <= 1000
    /\ \A d \in 0..3000 : 0 <= Confidence(d) /\ Confidence(d) <= 1000

\* C11 witness: a committed build has stored a similarity row of distance 0,
\* a similarity row at the lowest confidence kept and a reference row.
C11_Witness ==
    /\ Committed
    /\ \E c \in Range(vector_connections) :
          Distance(chroma, c.source, c.target) = 0 /\ c.confidence = 1000
    /\ \E r \in Rows : r.connection_type = "vector_similarity"
                        /\ r.confidence_score = MIN_CONFIDENCE_SCORE
    /\ \E r \in Rows : r.connection_type \in ReferenceMatchTypes

\* C12: similarity scoring.  When the vector index returns for a ticket a
\* neighbour of another source kind at distance d and the pair is not
\* already connected, the similarity pass emits an edge for the pair exactly
\* when d < VECTOR_SIMILARITY_THRESHOLD and max(0, 1 - d/2) >= 0.5; the edge
\* carries the confidence max(0, 1 - d/2), 0.8 for d = 0.4, and the
\* similarity connection type.
C12_SimilarityScoring ==
    BuiltCurrent =>
        \A a \in CurrentEntities, b \in CurrentEntities :
            (/\ IsJira(a.id)
             /\ ~Falsy(a)
             /\ b.source # a.source
             /\ SortedPair(a.id, b.id) \notin PairsOfConnections(regex_connections))
            => LET d == Distance(chroma, a.id, b.id)
                   score == IF 1000 - (d \div 2) > 0 THEN 1000 - (d \div 2) ELSE 0
                   emitted == {c \in Range(vector_connections) :
                                  c.source = a.id /\ c.target = b.id}
               IN  /\ emitted # {} <=> (d < 1200 /\ score >= 500)
                   /\ \A c \in emitted :
                          /\ c.confidence = score
                          /\ d = 400 => c.confidence = 800
                          /\ ConnectionType(c.match_reason) = "vector_similarity"

\* C12 witness: the similarity pass has run over a ticket with a neighbour
\* at distance 0.4, emitted with confidence 0.8, and another at distance 1.1,
\* below the threshold but of confidence 0.45, not emitted.
C12_Witness ==
    /\ BuiltCurrent
    /\ \E c \in Range(vector_connections) :
          Distance(chroma, c.source, c.target) = 400 /\ c.confidence = 800
    /\ \E a \in CurrentEntities, b \in CurrentEntities :
          /\ IsJira(a.id) /\ ~Falsy(a) /\ b.source # a.source
          /\ Distance(chroma, a.id, b.id) = 1100
          /\ SortedPair(a.id, b.id) \notin existing_pairs

\* C13: at most one edge per unordered pair per run.  Within one run of
\* main the list regex_connections + vector_connections +
\* meeting_connections holds each unordered pair {A, B} at most once.
C13_OneEdgePerPair ==
    LET all_connections == regex_connections \o vector_connections \o meeting_connections
    IN  \A i \in 1..Len(all_connections), j \in 1..Len(all_connections) :
            i # j => {all_connections[i].source, all_connections[i].target}
                         # {all_connections[j].source, all_connections[j].target}

\* C13 witness: a run in which the meeting pass met a pair, the meeting and
\* an entity with the incident_ref of the meeting, that the reference pass
\* had connected with the entity first.
C13_Witness ==
    /\ BuiltCurrent
    /\ \E m \in CurrentEntities, e \in CurrentEntities :
          /\ IsMeeting(m.id)
          /\ e.id # m.id
          /\ m.incident_ref # "" /\ e.incident_ref = m.incident_ref
          /\ \E c \in Range(regex_connections) : c.source = e.id /\ c.target = m.id

\* C14: store uniqueness and overwrite.  After any sequence of
\* store_connections calls the store holds at most one row per ordered
\* (source_entity_id, target_entity_id) pair, and a committed run leaves, for
\* every connection it stored, the forward and the reverse row with the
\* connection_type, confidence_score and match_reason of that connection,
\* whatever the store held for the pair before.
C14_StoreUniqueOverwrite ==
    [][/\ \A r \in db'.entity_connections, q \in db'.entity_connections :
            (r.source_entity_id = q.source_entity_id
             /\ r.target_entity_id = q.target_entity_id) => r = q
       /\ (runs' = runs + 1 /\ run_status' = "ok") =>
            \A c \in Range(regex_connections') \cup Range(vector_connections')
                        \cup Range(meeting_connections') :
                \A ends \in {<<c.source, c.target>>, <<c.target, c.source>>} :
                    \E r \in db'.entity_connections :
                        /\ r.source_entity_id = ends[1]
                        /\ r.target_entity_id = ends[2]
                        /\ r.connection_type = c.match_reason[1]
                        /\ r.confidence_score = c.confidence
                        /\ r.match_reason = c.match_reason]_vars

\* C14 witness: a second run has committed over a store that a first run
\* over another corpus had filled, and a row of the second run took the
\* place of a row of the first run with another confidence_score.
C14_Witness ==
    /\ runs = 2
    /\ Committed
    /\ \E c0 \in 1..Len(Corpora), o \in HashOrders :
          LET d0 == MainRun(EmptyDb, c0, o).db
          IN  /\ db.seq = d0.seq + 2 * Cardinality(AllConnections)
              /\ {r \in Rows : r.id <= d0.seq} \subseteq d0.entity_connections
              /\ \E r0 \in d0.entity_connections, r \in Rows :
                    /\ r.source_entity_id = r0.source_entity_id
                    /\ r.target_entity_id = r0.target_entity_id
                    /\ r.id > d0.seq
                    /\ r.confidence_score # r0.confidence_score

\* C15: degraded build on vector index failure.  When the vector index
\* raises while the similarity pass runs, only that pass is skipped: the
\* reference connections and the connections of the meeting pass are
\* persisted with the metadata of the entities, and the run ends well.
C15_DegradedBuild ==
    run_status = "index_error" =>
        LET entities == Corpora[chroma].entities
            meeting == find_meeting_connections(entities,
                                                PairsOfConnections(regex_connections))
        IN  /\ \A c \in Range(regex_connections) \cup Range(meeting.connections) :
                   \E r \in Rows : /\ r.source_entity_id = c.source
                                    /\ r.target_entity_id = c.target
                                    /\ r.match_reason = c.match_reason
            /\ \A e \in CurrentEntities : get_entity_metadata(db, e.id)

\* C16: malformed entity tolerance.  An entity whose document is missing or
\* null is skipped by the stages that need content and does not abort the
\* batch: the build reaches store_connections and persists the metadata of
\* all the other entities and the connections found.
C16_MalformedTolerance ==
    (BuiltCurrent /\ \E e \in CurrentEntities : e.null_document) =>
        /\ run_status = "ok"
        /\ \A e \in CurrentEntities : ~e.null_document => get_entity_metadata(db, e.id)
        /\ \A c \in AllConnections :
               \E r \in Rows : /\ r.source_entity_id = c.source
                                /\ r.target_entity_id = c.target
                                /\ r.match_reason = c.match_reason

\* C17: get_connections result shape.  For every entity ID the call returns
\* a mapping from target_type to a list of neighbour records of that type,
\* each list ordered by non-increasing confidence; for an entity without
\* rows, or an unknown ID, it returns the empty mapping.
C17_ResultShape ==
    \A id \in QueryIds :
        \A m \in get_connections(db, id, "", 0) \cup get_entity_connections_grouped(db, id) :
            /\ \A t \in DOMAIN m :
                  /\ Len(m[t]) >= 1
                  /\ \A i \in 1..Len(m[t]) :
                        \E r \in Rows : /\ r.source_entity_id = id
                                         /\ r.target_entity_id = m[t][i].entity_id
                                         /\ r.target_type = t
                                         /\ r.confidence_score = m[t][i].confidence
                  /\ \A i \in 1..Len(m[t]), j \in 1..Len(m[t]) :
                        i < j => m[t][i].confidence >= m[t][j].confidence
            /\ {r \in Rows : r.source_entity_id = id} = {} => DOMAIN m = {}

\* C17 witness: a committed store in which one entity has two neighbours of
\* one target_type with different confidences, returned the higher first,
\* and another entity of the model has no row.
C17_Witness ==
    /\ Committed
    /\ \E id \in IDs : \E m \in get_connections(db, id, "", 0) : \E t \in DOMAIN m :
          Len(m[t]) >= 2 /\ m[t][1].confidence > m[t][2].confidence
    /\ \E id \in IDs : get_connections(db, id, "", 0) = {<<>>}

\* The source kinds a caller may filter on ("" for no filter) and the
\* confidence floors tried: the scores the builder emits and values between.
FilterSources == {"", "jira", "slack", "meetings", "github", "docs"}
ConfidenceFloors == {0, 500, 800, 850, 875, 900, 950, 1000}

\* The rows a returned mapping holds, each with the key it is listed under.
ReturnedRows(m) ==
    {<<t, m[t][i].entity_id, m[t][i].connection_type, m[t][i].confidence,
       m[t][i].match_reason>> : <<t, i>> \in
           UNION {{<<u, k>> : k \in 1..Len(m[u])} : u \in DOMAIN m}}

ReturnedCount(m) == Cardinality(UNION {{<<u, k>> : k \in 1..Len(m[u])} : u \in DOMAIN m})

\* C18: filtered query.  get_connections(entity_id, filter_source = T,
\* min_confidence = m) returns exactly the rows with source_entity_id =
\* entity_id, target_type = T and confidence_score >= m, and without
\* filter_source exactly the rows of the entity with confidence_score >= m.
C18_FilteredQuery ==
    \A id \in QueryIds, T \in FilterSources, m \in ConfidenceFloors :
        LET expected == {r \in Rows : /\ r.source_entity_id = id
                                      /\ T # "" => r.target_type = T
                                      /\ r.confidence_score >= m}
        IN  \A res \in get_connections(db, id, T, m) :
                /\ ReturnedRows(res) =
                       {<<r.target_type, r.target_entity_id, r.connection_type,
                          r.confidence_score, r.match_reason>> : r \in expected}
                /\ ReturnedCount(res) = Cardinality(expected)

\* C18 witness: a committed store and a filtered call that returns a row of
\* confidence exactly m, leaves out a row of the same target_type below m
\* and leaves out a row of another target_type.
C18_Witness ==
    /\ Committed
    /\ \E id \in IDs, T \in FilterSources \ {""}, m \in ConfidenceFloors :
          /\ \E r \in SelectConnections(db, id, T, m) : r.confidence_score = m
          /\ \E r \in Rows : /\ r.source_entity_id = id
                              /\ r.target_type = T
                              /\ r.confidence_score < m
    /\ \E id \in IDs, T \in FilterSources \ {""} :
          /\ SelectConnections(db, id, T, 0) # {}
          /\ \E r \in Rows : r.source_entity_id = id /\ r.target_type # T

\* C19: empty retrieval.  When the summary search returns no summary,
\* search_with_connections returns a result with empty root_summaries, no
\* node and no edge, node_count = edge_count = 0, and makes no lookup in the
\* Connection Store on the way.
C19_EmptyRetrieval ==
    (g_entry = "search_with_connections" /\ summaries = <<>>) =>
        /\ lookups = <<>>
        /\ g_pc = "done" =>
              LET result == ConnectionGraph(root_summary_ids, nodes, edges)
              IN  /\ result.root_summaries = <<>>
                  /\ result.nodes = <<>>
                  /\ result.edges = <<>>
                  /\ result.node_count = 0
                  /\ result.edge_count = 0

\* C19 witness: a call of search_with_connections whose summary search
\* returned nothing has returned, over a store that holds connections.
C19_Witness ==
    /\ g_entry = "search_with_connections"
    /\ summaries = <<>>
    /\ g_pc = "done"
    /\ Rows # {}

\* C20: unknown entity handling.  For an entity ID with no metadata row and
\* no connection row, get_entity_by_id returns None and
\* build_connection_graph([id], d) returns an empty node list and an empty
\* edge list.
C20_UnknownEntity ==
    \A id \in QueryIds :
        (/\ ~get_entity_metadata(db, id)
         /\ {r \in Rows : r.source_entity_id = id} = {})
        => /\ \A res \in get_entity_by_id(db, id) : res.is_none
           /\ (g_entry = "build_connection_graph" /\ sub_entity_ids = <<id>>
                /\ g_pc = "done")
              => nodes = <<>> /\ edges = <<>>

\* C20 witness: build_connection_graph([id], d) has returned for an ID that
\* the store, which holds other entities and connections, does not know,
\* after looking the ID up.
C20_Witness ==
    /\ g_entry = "build_connection_graph"
    /\ g_pc = "done"
    /\ Rows # {}
    /\ \E id \in IDs :
          /\ sub_entity_ids = <<id>>
          /\ ~get_entity_metadata(db, id)
          /\ {r \in Rows : r.source_entity_id = id} = {}
          /\ lookups = << <<"get_entity_metadata", id>>, <<"get_entity_connections", id>> >>

\* The position of the first occurrence of x in the sequence s.
FirstIndex(s, x) == CHOOSE i \in 1..Len(s) : s[i] = x /\ \A j \in 1..(i - 1) : s[j] # x

\* C21: seed collection.  The seed list that search_with_connections hands
\* to build_connection_graph is the concatenation of the sub_entity_ids of
\* the returned summaries, in ranking order, without later duplicates and
\* without empty IDs: every non-empty referenced ID appears exactly once, in
\* first-occurrence order, and nothing else appears.
C21_SeedCollection ==
    g_entry = "search_with_connections" =>
        LET referenced == Flatten([i \in 1..Len(summaries) |-> summaries[i].sub_entity_ids])
        IN  /\ Range(sub_entity_ids) = Range(referenced) \ {""}
            /\ \A i \in 1..Len(sub_entity_ids), j \in 1..Len(sub_entity_ids) :
                  /\ i # j => sub_entity_ids[i] # sub_entity_ids[j]
                  /\ i < j => FirstIndex(referenced, sub_entity_ids[i])
                                  < FirstIndex(referenced, sub_entity_ids[j])

\* C21 witness: two summaries were returned, an entity is referenced by both
\* and one reference is empty; three seeds are left.
C21_Witness ==
    /\ g_entry = "search_with_connections"
    /\ Len(summaries) = 2
    /\ Range(summaries[1].sub_entity_ids) \cap Range(summaries[2].sub_entity_ids) # {}
    /\ "" \in Range(summaries[1].sub_entity_ids)
    /\ Len(sub_entity_ids) = 3

\* The (source, target, type, confidence, reason) rows that the connections
\* of the last run stand for, in both directions.
DerivedRows ==
    UNION {{<<c.source, c.target, c.match_reason[1], c.confidence, c.match_reason>>,
            <<c.target, c.source, c.match_reason[1], c.confidence, c.match_reason>>} :
           c \in AllConnections}

\* C22: rebuild leaves no stale edges.  After main has run over an entity
\* set and then over another one, the Connection Store holds exactly the
\* edges derived from the second set; no row of a pair that is no longer
\* connected remains.
C22_NoStaleEdges ==
    Committed => RowsWithReason(db) = DerivedRows

\* The entities whose connections the call has fetched so far, in order.
Fetched ==
    LET calls == SelectSeq(lookups, LAMBDA l : l[1] = "get_entity_connections")
    IN  [i \in 1..Len(calls) |-> calls[i][2]]

\* C23: no expansion past max_depth.  build_connection_graph fetches the
\* connections of an entity only if the entity is within max_depth hops of
\* some seed, and fetches the connections of each entity at most once per
\* call.
C23_NoExpansionPastMaxDepth ==
    /\ \A i \in 1..Len(Fetched) :
          Fetched[i] \in WithinHops(db, Range(sub_entity_ids), max_depth)
    /\ \A i \in 1..Len(Fetched), j \in 1..Len(Fetched) : i # j => Fetched[i] # Fetched[j]
    /\ Range(Fetched) = processed

\* C23 witness: a call with max_depth >= 1 has returned after fetching an
\* entity exactly max_depth hops from the seeds, and has not fetched a
\* neighbour of it that is one hop farther and has connections of its own.
C23_Witness ==
    /\ g_pc = "done"
    /\ max_depth >= 1
    /\ \E id \in Range(Fetched) :
          id \notin WithinHops(db, Range(sub_entity_ids), max_depth - 1)
    /\ \E r \in Rows :
          /\ r.source_entity_id \notin WithinHops(db, Range(sub_entity_ids), max_depth)
          /\ r.source_entity_id \in WithinHops(db, Range(sub_entity_ids), max_depth + 1)
          /\ r.source_entity_id \notin Range(Fetched)

\* C24: nodes require metadata.  Every node of build_connection_graph has
\* an entity_metadata row and appears once; an entity ID without metadata
\* is never a node, seed or not.
C24_NodesRequireMetadata ==
    /\ \A i \in 1..Len(nodes) : get_entity_metadata(db, nodes[i])
    /\ \A i \in 1..Len(nodes), j \in 1..Len(nodes) : i # j => nodes[i] # nodes[j]
    /\ \A id \in Range(sub_entity_ids) \cup processed :
          ~get_entity_metadata(db, id) => id \notin Range(nodes)

\* C24 witness: a call has returned whose seeds hold an ID without metadata,
\* looked up and left out, next to a seed that became a node with a
\* neighbour.
C24_Witness ==
    /\ g_pc = "done"
    /\ Len(nodes) >= 2
    /\ \E id \in Range(sub_entity_ids) :
          /\ ~get_entity_metadata(db, id)
          /\ <<"get_entity_metadata", id>> \in Range(lookups)

\* C25: similarity pass anchoring.  Every edge of find_vector_matches has
\* a ticket (jira_ prefix) as its first endpoint and an entity that is not a
\* ticket as its second; it never joins a ticket to itself or to another
\* ticket and never a pair that existing_pairs held when the pass began.
C25_SimilarityAnchoring ==
    \A c \in Range(vector_connections) :
        /\ IsJira(c.source)
        /\ ~IsJira(c.target)
        /\ c.source # c.target
        /\ \A e \in Range(regex_connections) :
              {e.source, e.target} # {c.source, c.target}

\* C25 witness: the similarity pass has emitted an edge in a collection
\* where the index also returned, below the threshold, another ticket and
\* an entity that the reference pass had already connected to the ticket.
C25_Witness ==
    /\ BuiltCurrent
    /\ vector_connections # <<>>
    /\ \E a \in CurrentEntities, b \in CurrentEntities :
          /\ a.id # b.id /\ IsJira(a.id) /\ IsJira(b.id) /\ ~Falsy(a)
          /\ Distance(chroma, a.id, b.id) < VECTOR_SIMILARITY_THRESHOLD
    /\ \E a \in CurrentEntities, b \in CurrentEntities :
          /\ SimilarityMatch(a, b)
          /\ \E e \in Range(regex_connections) : {e.source, e.target} = {a.id, b.id}

\* C26: traversal completeness.  When build_connection_graph returns, every
\* entity that has a metadata row and lies within max_depth hops of a seed
\* in the store is a node, for every order of the seeds and every order in
\* which the store returns the neighbours.
C26_TraversalComplete ==
    g_pc = "done" =>
        \A id \in WithinHops(db, Range(sub_entity_ids), max_depth) :
            get_entity_metadata(db, id) => id \in Range(nodes)

\* C26 witness: a call with two distinct seeds and max_depth >= 2 has
\* returned, and an entity exactly max_depth hops from the seeds is a node.
C26_Witness ==
    /\ g_pc = "done"
    /\ max_depth >= 2
    /\ Len(sub_entity_ids) >= 2
    /\ sub_entity_ids[1] # sub_entity_ids[2]
    /\ \E id \in WithinHops(db, Range(sub_entity_ids), max_depth) :
          /\ id \notin WithinHops(db, Range(sub_entity_ids), max_depth - 1)
          /\ get_entity_metadata(db, id)
          /\ id \in Range(nodes)

\* The entities within k hops of S over connections of confidence >= floor
RECURSIVE WithinHopsAbove(_, _, _, _)
WithinHopsAbove(d, S, k, floor) ==
    IF k = 0 THEN S
    ELSE WithinHopsAbove(d,
             S \cup {r.target_entity_id :
                        r \in {x \in d.entity_connections :
                                  x.source_entity_id \in S /\ x.confidence_score >= floor}},
             k - 1, floor)

\* C27: depth-limited graph of the query utility.  When
\* get_connection_graph(conn, entity_id, depth) returns, no entity is a node
\* twice, and the nodes are exactly the entities with a metadata row within
\* depth hops of entity_id over connections of confidence >= 0.8, for every
\* order in which the neighbours are met.
C27_DepthLimitedGraph ==
    q_pc = "done" =>
        /\ \A i \in 1..Len(graph.nodes), j \in 1..Len(graph.nodes) :
              i # j => graph.nodes[i] # graph.nodes[j]
        /\ Range(graph.nodes) =
              {id \in WithinHopsAbove(db, {q_entity_id}, q_depth, TRAVERSE_MIN_CONFIDENCE) :
                  get_entity_info(db, id)}

\* The rows the reader's last call returned if it asked for entity_id
ReadRows(entity_id) == Range(CHOOSE rows \in get_entity_connections(r_view, entity_id) : TRUE)

\* Row r has its reverse row in database d, with the same type, confidence
\* and reason.
HasReverse(d, r) ==
    \E x \in d.entity_connections :
        /\ x.source_entity_id = r.target_entity_id
        /\ x.target_entity_id = r.source_entity_id
        /\ x.connection_type = r.connection_type
        /\ x.confidence_score = r.confidence_score
        /\ x.match_reason = r.match_reason

\* C28: atomic visibility of a rebuild.  Nothing store_connections writes
\* is committed before its single commit: while the run is writing, the
\* committed database is the one from before the run, and the commit
\* installs the result of the whole run at once.  A reader on a connection
\* of its own therefore is answered from the state before the run or from
\* the state after it, and every row (A,B) it receives has its reverse
\* row (B,A) in the state it was answered from.
C28_AtomicVisibility ==
    /\ InTransaction => db = before
    /\ w_pc = "raised" => db = before
    /\ w_pc = "done" => db = MainRun(before, w_corpus, w_order).db
    /\ r_run = runs => r_view \in {before, db}
    /\ \A entity_id \in IDs : \A r \in ReadRows(entity_id) : HasReverse(r_view, r)

\* C28 witness: in the current run the reader asked while a forward row
\* was written and its reverse row was not, over a database that earlier
\* runs had filled, and the builder is at such a point.
C28_Witness ==
    /\ w_pc = "reverse"
    /\ r_at = "reverse"
    /\ r_run = runs
    /\ \E entity_id \in IDs : ReadRows(entity_id) # {}
    /\ \E r \in w_db.entity_connections : ~HasReverse(w_db, r)

KindsThatApply(a, b) ==
    (IF IncidentRefs(a) \cap IncidentRefs(b) # {}
     THEN {<<"shared_incident", INCIDENT_CONFIDENCE>>} ELSE {})
    \cup (IF JiraRefs(a) \cap JiraRefs(b) # {}
          THEN {<<"shared_jira", JIRA_CONFIDENCE>>} ELSE {})
    \cup (IF \/ \E ref \in PrRefs(a) : b.id = GithubPrId(ref)
             \/ \E ref \in PrRefs(b) : a.id = GithubPrId(ref)
          THEN {<<"pr_reference", PR_CONFIDENCE>>} ELSE {})

\* The edges of the reference pass between a and b, by position
RegexEdgesOf(a, b) ==
    {i \in 1..Len(regex_connections) :
        {regex_connections[i].source, regex_connections[i].target} = {a.id, b.id}}

\* C30: priority among reference kinds.  For two distinct entities, the
\* reference pass emits one edge if some reference kind applies to the pair
\* and none otherwise; the edge is of the first kind that applies in the
\* order incident, ticket, pull request, its confidence is the highest
\* among the kinds that apply, and after a committed run both rows of the
\* pair carry that kind and confidence.
C30_ReferencePriority ==
    BuiltCurrent =>
        \A a \in CurrentEntities, b \in CurrentEntities :
            a.id # b.id =>
                LET kinds == KindsThatApply(a, b)
                IN  /\ kinds = {} => RegexEdgesOf(a, b) = {}
                    /\ kinds # {} =>
                          /\ Cardinality(RegexEdgesOf(a, b)) = 1
                          /\ \A i \in RegexEdgesOf(a, b) :
                                /\ <<regex_connections[i].match_reason[1],
                                      regex_connections[i].confidence>> \in kinds
                                /\ \A k \in kinds : k[2] <= regex_connections[i].confidence
                                /\ Committed =>
                                      \A r \in Rows :
                                          (r.source_entity_id = a.id /\ r.target_entity_id = b.id)
                                          => /\ r.confidence_score = regex_connections[i].confidence
                                             /\ r.connection_type = regex_connections[i].match_reason[1]

\* C30 witness: a committed run over a collection with a pair to which
\* incident and ticket apply and a pair to which ticket and pull request
\* apply.
C30_Witness ==
    /\ Committed
    /\ \E a \in CurrentEntities, b \in CurrentEntities :
          /\ a.id # b.id
          /\ {k[1] : k \in KindsThatApply(a, b)} = {"shared_incident", "shared_jira"}
    /\ \E a \in CurrentEntities, b \in CurrentEntities :
          /\ a.id # b.id
          /\ {k[1] : k \in KindsThatApply(a, b)} = {"shared_jira", "pr_reference"}
          /\ \E r \in Rows : r.source_entity_id = a.id /\ r.target_entity_id = b.id

====
